---- MODULE Spec2Model ----
(***************************************************************************)
(* Teacher / student registry of the NestJS assessment service:            *)
(* EmailUtils, StudentService and TeacherService over a relational store   *)
(* (tables students, teachers and the junction table teacher_students).    *)
(* Strings are sequences of one-character strings, so that trimming,       *)
(* lower-casing, the e-mail pattern and the mention pattern are computed   *)
(* character by character as the code computes them.                       *)
(***************************************************************************)
EXTENDS Integers, Sequences, FiniteSets, TLC

(***************************************************************************)
(* Bounds of the model.                                                    *)
(***************************************************************************)
\* longest e-mail list handed to registerStudentsToTeacher / getCommonStudents
MaxListLen == 2

(***************************************************************************)
(* Characters and strings.                                                 *)
(***************************************************************************)
Range(s) == {s[i] : i \in 1..Len(s)}

\* String.prototype.toLowerCase, per character
LowerChar(c) ==
  CASE c = "A" -> "a"
    [] c = "B" -> "b"
    [] c = "T" -> "t"
    [] c = "U" -> "u"
    [] OTHER -> c

\* UTF-16 code unit of a character (the order Array.prototype.sort uses)
CharCode(c) ==
  CASE c = " " -> 32
    [] c = "!" -> 33
    [] c = "," -> 44
    [] c = "." -> 46
    [] c = "@" -> 64
    [] c = "A" -> 65
    [] c = "B" -> 66
    [] c = "T" -> 84
    [] c = "U" -> 85
    [] c = "a" -> 97
    [] c = "b" -> 98
    [] c = "c" -> 99
    [] c = "d" -> 100
    [] c = "t" -> 116
    [] c = "u" -> 117
    [] OTHER -> 0

\* the class \s of the two patterns
IsSpace(c) == c = " "

ToLowerCase(s) == [i \in 1..Len(s) |-> LowerChar(s[i])]

RECURSIVE Trim(_)
\* String.prototype.trim
Trim(s) ==
  IF s = <<>> THEN s
  ELSE IF IsSpace(Head(s)) THEN Trim(Tail(s))
  ELSE IF IsSpace(s[Len(s)]) THEN Trim(SubSeq(s, 1, Len(s) - 1))
  ELSE s

RECURSIVE StrLess(_, _)
\* a < b in code-unit order
StrLess(a, b) ==
  IF b = <<>> THEN FALSE
  ELSE IF a = <<>> THEN TRUE
  ELSE IF CharCode(Head(a)) < CharCode(Head(b)) THEN TRUE
  ELSE IF CharCode(Head(a)) > CharCode(Head(b)) THEN FALSE
  ELSE StrLess(Tail(a), Tail(b))

RECURSIVE InsertSorted(_, _)
InsertSorted(x, s) ==
  IF s = <<>> THEN <<x>>
  ELSE IF StrLess(Head(s), x) THEN <<Head(s)>> \o InsertSorted(x, Tail(s))
  ELSE <<x>> \o s

RECURSIVE SortStrings(_)
\* Array.prototype.sort() without comparator, on strings
SortStrings(s) ==
  IF s = <<>> THEN <<>> ELSE InsertSorted(Head(s), SortStrings(Tail(s)))

(***************************************************************************)
(* EmailUtils.                                                             *)
(***************************************************************************)
\* VALIDATION_RULES.EMAIL_REGEX  /^[^\s@]+@[^\s@]+\.[^\s@]+$/ :
\* no white space, exactly one '@' with a character before it, and after it a
\* '.' that has a character on both sides.
IsValidEmail(s) ==
  /\ \A i \in 1..Len(s) : ~IsSpace(s[i])
  /\ Cardinality({i \in 1..Len(s) : s[i] = "@"}) = 1
  /\ \E i \in 2..Len(s) :
       /\ s[i] = "@"
       /\ \E j \in (i + 2)..(Len(s) - 1) : s[j] = "."

RECURSIVE RemoveDuplicateEmails(_)
\* [...new Set(emails)]: first occurrence kept, order preserved
RemoveDuplicateEmails(emails) ==
  IF emails = <<>> THEN <<>>
  ELSE LET rest == RemoveDuplicateEmails(SubSeq(emails, 1, Len(emails) - 1))
           x == emails[Len(emails)]
       IN IF x \in Range(rest) THEN rest ELSE Append(rest, x)

FilterValidEmails(emails) ==
  SelectSeq(RemoveDuplicateEmails(emails), IsValidEmail)

NormalizeEmail(email) == ToLowerCase(Trim(email))

\* normalizeEmails without the removal of duplicates
NormalizeEmails_NoDedup(emails) ==
  [i \in 1..Len(emails) |-> NormalizeEmail(emails[i])]

NormalizeEmails(emails) ==
  RemoveDuplicateEmails([i \in 1..Len(emails) |-> NormalizeEmail(emails[i])])

\* [^\s@]
IsTokenChar(c) == ~IsSpace(c) /\ c # "@"

RECURSIVE RunEnd(_, _)
\* index of the last character of the maximal run of [^\s@] starting at p
\* (p - 1 when the run is empty)
RunEnd(text, p) ==
  IF p > Len(text) \/ ~IsTokenChar(text[p]) THEN p - 1 ELSE RunEnd(text, p + 1)

\* VALIDATION_RULES.MENTION_REGEX /@([^\s@]+@[^\s@]+\.[^\s@]+)/ anchored at p:
\* index of the last character matched, 0 when there is no match at p.
\* Every quantifier is greedy, so a match runs to the end of the run of
\* [^\s@] that follows the second '@'.
MentionEnd(text, p) ==
  IF p > Len(text) \/ text[p] # "@" THEN 0
  ELSE LET l == RunEnd(text, p + 1)
       IN IF l < p + 1 \/ l + 1 > Len(text) \/ text[l + 1] # "@" THEN 0
          ELSE LET r == RunEnd(text, l + 2)
               IN IF \E j \in (l + 3)..(r - 1) : text[j] = "." THEN r ELSE 0

RECURSIVE MatchAllMentions(_, _)
\* notification.matchAll(MENTION_REGEX): the capture groups, left to right
MatchAllMentions(text, p) ==
  IF p > Len(text) THEN <<>>
  ELSE LET e == MentionEnd(text, p)
       IN IF e = 0 THEN MatchAllMentions(text, p + 1)
          ELSE <<SubSeq(text, p + 1, e)>> \o MatchAllMentions(text, e + 1)

ExtractMentionedEmails(notification) ==
  IF notification = <<>> THEN <<>>
  ELSE RemoveDuplicateEmails(
         SelectSeq(MatchAllMentions(notification, 1), IsValidEmail))

(***************************************************************************)
(* The store: tables students, teachers and teacher_students.              *)
(***************************************************************************)
VARIABLES
  students,       \* rows of table students: [id, email, suspended]
  teachers,       \* rows of table teachers: [id, email]
  edges,          \* rows of the junction table teacher_students: <<teacher id, student id>>
  nextStudentId,  \* auto-increment counter of students.id
  nextTeacherId,  \* auto-increment counter of teachers.id
  last,           \* the call that returned last: operation, arguments, outcome
  calls           \* the registerStudentsToTeacher calls in flight, per caller

store == <<students, teachers, edges, nextStudentId, nextTeacherId>>
vars == <<students, teachers, edges, nextStudentId, nextTeacherId, last, calls>>

RECURSIVE RowsById(_)
\* the rows of a result set, in primary-key order
RowsById(rows) ==
  IF rows = {} THEN <<>>
  ELSE LET r == CHOOSE x \in rows : \A y \in rows : x.id <= y.id
       IN <<r>> \o RowsById(rows \ {r})

\* the value of the relation 'students' that a teacher is loaded with
RelationStudents(tid, ss, es) ==
  RowsById({s \in ss : <<tid, s.id>> \in es})

NoTeacher == [id |-> 0, email |-> <<>>, students |-> <<>>]

\* teacherRepository.findOne({ where: { email }, relations: ['students'] })
FindOneTeacher(email, ts, ss, es) ==
  IF \E t \in ts : t.email = email
  THEN LET t == CHOOSE x \in ts : x.email = email
       IN [id |-> t.id, email |-> t.email,
           students |-> RelationStudents(t.id, ss, es)]
  ELSE NoTeacher

\* studentRepository.find({ where: { email: In(emails) } })
FindStudentsIn(emails, ss) == RowsById({s \in ss : s.email \in Range(emails)})

(***************************************************************************)
(* StudentService.                                                         *)
(***************************************************************************)
\* faults the store can raise during bulkCreateStudents
StoreFaults == {"none", "find", "create"}

findStudentsByEmails(emails, ss) ==
  IF Len(emails) = 0 THEN <<>>
  ELSE LET validEmails == FilterValidEmails(emails)
       IN IF Len(validEmails) = 0 THEN <<>>
          ELSE FindStudentsIn(NormalizeEmails(validEmails), ss)

\* the rows studentRepository.save(newStudents) inserts, ids in input order
NewStudentRows(newEmails, nsid) ==
  [i \in 1..Len(newEmails) |->
     [id |-> nsid + i - 1, email |-> newEmails[i], suspended |-> FALSE]]

\* SaveNewStudents as it would be without the unique index on students.email
SaveNewStudents_NoUniqueIndex(newEmails, ss, nsid, fault) ==
  IF fault = "create"
  THEN [ok |-> FALSE, saved |-> <<>>, students |-> ss, nextStudentId |-> nsid]
  ELSE [ok |-> TRUE,
        saved |-> NewStudentRows(newEmails, nsid),
        students |-> ss \cup Range(NewStudentRows(newEmails, nsid)),
        nextStudentId |-> nsid + Len(newEmails)]

\* studentRepository.save(newStudents): one transaction; the unique index on
\* students.email rejects the whole batch when an e-mail is already stored
SaveNewStudents(newEmails, ss, nsid, fault) ==
  IF fault = "create" \/ \E s \in ss : s.email \in Range(newEmails)
  THEN [ok |-> FALSE, saved |-> <<>>, students |-> ss, nextStudentId |-> nsid]
  ELSE [ok |-> TRUE,
        saved |-> NewStudentRows(newEmails, nsid),
        students |-> ss \cup Range(NewStudentRows(newEmails, nsid)),
        nextStudentId |-> nsid + Len(newEmails)]

FailedItems(items, error) ==
  [i \in 1..Len(items) |-> [item |-> items[i], error |-> error]]

\* bulkCreateAfterFind whose catch block reports no student at all: the rows
\* found are dropped from `successful` when the insert fails
bulkCreateAfterFind_DropFound(emails, existing, ss, nsid, fault) ==
  LET validEmails == FilterValidEmails(emails)
      invalidEmails == SelectSeq(emails, LAMBDA e : ~IsValidEmail(e))
      invalidFailed == FailedItems(invalidEmails, "INVALID_EMAIL_FORMAT")
      normalizedEmails == NormalizeEmails(validEmails)
      existingEmailsSet == {existing[i].email : i \in 1..Len(existing)}
      newEmails == SelectSeq(normalizedEmails, LAMBDA e : e \notin existingEmailsSet)
      saveResult == SaveNewStudents(newEmails, ss, nsid, fault)
      unchanged(successful, failed) ==
        [successful |-> successful, failed |-> failed,
         totalProcessed |-> Len(emails), students |-> ss, nextStudentId |-> nsid]
  IN IF Len(emails) = 0 THEN unchanged(<<>>, <<>>)
     ELSE IF Len(validEmails) = 0 THEN unchanged(<<>>, invalidFailed)
     ELSE IF fault = "find"
       THEN unchanged(<<>>, invalidFailed \o FailedItems(normalizedEmails, "DATABASE_ERROR"))
     ELSE IF Len(newEmails) = 0 THEN unchanged(existing, invalidFailed)
     ELSE IF ~saveResult.ok
       THEN unchanged(<<>>, invalidFailed \o FailedItems(normalizedEmails, "DATABASE_ERROR"))
     ELSE [successful |-> existing \o saveResult.saved, failed |-> invalidFailed,
           totalProcessed |-> Len(emails),
           students |-> saveResult.students,
           nextStudentId |-> saveResult.nextStudentId]

\* bulkCreateAfterFind that assigns the saved rows to `successful` instead of
\* appending them to the rows found
bulkCreateAfterFind_Overwrite(emails, existing, ss, nsid, fault) ==
  LET validEmails == FilterValidEmails(emails)
      invalidEmails == SelectSeq(emails, LAMBDA e : ~IsValidEmail(e))
      invalidFailed == FailedItems(invalidEmails, "INVALID_EMAIL_FORMAT")
      normalizedEmails == NormalizeEmails(validEmails)
      existingEmailsSet == {existing[i].email : i \in 1..Len(existing)}
      newEmails == SelectSeq(normalizedEmails, LAMBDA e : e \notin existingEmailsSet)
      saveResult == SaveNewStudents(newEmails, ss, nsid, fault)
      unchanged(successful, failed) ==
        [successful |-> successful, failed |-> failed,
         totalProcessed |-> Len(emails), students |-> ss, nextStudentId |-> nsid]
  IN IF Len(emails) = 0 THEN unchanged(<<>>, <<>>)
     ELSE IF Len(validEmails) = 0 THEN unchanged(<<>>, invalidFailed)
     ELSE IF fault = "find"
       THEN unchanged(<<>>, invalidFailed \o FailedItems(normalizedEmails, "DATABASE_ERROR"))
     ELSE IF Len(newEmails) = 0 THEN unchanged(existing, invalidFailed)
     ELSE IF ~saveResult.ok
       THEN unchanged(existing, invalidFailed \o FailedItems(normalizedEmails, "DATABASE_ERROR"))
     ELSE [successful |-> saveResult.saved, failed |-> invalidFailed,
           totalProcessed |-> Len(emails),
           students |-> saveResult.students,
           nextStudentId |-> saveResult.nextStudentId]

\* bulkCreateStudents after its look-up returned `existing` (read from the
\* table as it was then), run against the table ss as it is now
bulkCreateAfterFind(emails, existing, ss, nsid, fault) ==
  LET validEmails == FilterValidEmails(emails)
      invalidEmails == SelectSeq(emails, LAMBDA e : ~IsValidEmail(e))
      invalidFailed == FailedItems(invalidEmails, "INVALID_EMAIL_FORMAT")
      normalizedEmails == NormalizeEmails(validEmails)
      existingEmailsSet == {existing[i].email : i \in 1..Len(existing)}
      newEmails == SelectSeq(normalizedEmails, LAMBDA e : e \notin existingEmailsSet)
      saveResult == SaveNewStudents(newEmails, ss, nsid, fault)
      unchanged(successful, failed) ==
        [successful |-> successful, failed |-> failed,
         totalProcessed |-> Len(emails), students |-> ss, nextStudentId |-> nsid]
  IN IF Len(emails) = 0 THEN unchanged(<<>>, <<>>)
     ELSE IF Len(validEmails) = 0 THEN unchanged(<<>>, invalidFailed)
     ELSE IF fault = "find"
       THEN unchanged(<<>>, invalidFailed \o FailedItems(normalizedEmails, "DATABASE_ERROR"))
     ELSE IF Len(newEmails) = 0 THEN unchanged(existing, invalidFailed)
     ELSE IF ~saveResult.ok
       THEN unchanged(existing, invalidFailed \o FailedItems(normalizedEmails, "DATABASE_ERROR"))
     ELSE [successful |-> existing \o saveResult.saved, failed |-> invalidFailed,
           totalProcessed |-> Len(emails),
           students |-> saveResult.students,
           nextStudentId |-> saveResult.nextStudentId]

\* the look-up of bulkCreateStudents made with the e-mails as written, not
\* normalised
bulkCreateFind_Raw(emails, ss, fault) ==
  IF fault = "find" THEN <<>>
  ELSE FindStudentsIn(FilterValidEmails(emails), ss)

\* bulkCreateFind as it would be if the look-up skipped suspended students
bulkCreateFind_ActiveOnly(emails, ss, fault) ==
  IF fault = "find" THEN <<>>
  ELSE SelectSeq(findStudentsByEmails(NormalizeEmails(FilterValidEmails(emails)), ss),
                 LAMBDA s : ~s.suspended)

\* the look-up of bulkCreateStudents (empty when the store fault hits it)
bulkCreateFind(emails, ss, fault) ==
  IF fault = "find" THEN <<>>
  ELSE findStudentsByEmails(NormalizeEmails(FilterValidEmails(emails)), ss)

\* bulkCreateStudents as one uninterrupted call
bulkCreateStudents(emails, ss, nsid, fault) ==
  bulkCreateAfterFind(emails, bulkCreateFind(emails, ss, fault), ss, nsid, fault)

\* getStudentsByEmails(emails, includeSuspended): ordered by e-mail
getStudentsByEmails(emails, includeSuspended, ss) ==
  IF Len(emails) = 0 THEN <<>>
  ELSE LET validEmails == FilterValidEmails(emails)
           normalizedEmails == NormalizeEmails(validEmails)
           rows == {s \in ss : /\ s.email \in Range(normalizedEmails)
                               /\ (includeSuspended \/ ~s.suspended)}
       IN IF Len(validEmails) = 0 THEN <<>>
          ELSE SortStrings([i \in 1..Cardinality(rows) |-> RowsById(rows)[i].email])

\* suspendStudent with `affected` counting the rows the UPDATE changed, not
\* the rows it matched
suspendStudent_ChangedRows(email, ss) ==
  LET normalizedEmail == NormalizeEmail(email)
      affected == {s \in ss : s.email = normalizedEmail /\ ~s.suspended}
  IN IF ~IsValidEmail(normalizedEmail)
       THEN [status |-> "Error", message |-> "INVALID_EMAIL_FORMAT", students |-> ss]
     ELSE IF affected = {}
       THEN [status |-> "NotFoundException", message |-> "STUDENT_NOT_FOUND", students |-> ss]
     ELSE [status |-> "ok", message |-> "",
           students |-> {IF s \in affected THEN [s EXCEPT !.suspended = TRUE] ELSE s : s \in ss}]

\* suspendStudent: UPDATE students SET suspended = true WHERE email = :email
\* (updateResult.affected is the number of rows matched: the driver connects
\* with the FOUND_ROWS flag)
suspendStudent(email, ss) ==
  LET normalizedEmail == NormalizeEmail(email)
      affected == {s \in ss : s.email = normalizedEmail}
  IN IF ~IsValidEmail(normalizedEmail)
       THEN [status |-> "Error", message |-> "INVALID_EMAIL_FORMAT", students |-> ss]
     ELSE IF affected = {}
       THEN [status |-> "NotFoundException", message |-> "STUDENT_NOT_FOUND", students |-> ss]
     ELSE [status |-> "ok", message |-> "",
           students |-> {IF s \in affected THEN [s EXCEPT !.suspended = TRUE] ELSE s : s \in ss}]

(***************************************************************************)
(* TeacherService.                                                         *)
(***************************************************************************)
findTeacherByEmail(email, ts, ss, es) ==
  LET normalizedEmail == NormalizeEmail(email)
  IN IF ~IsValidEmail(normalizedEmail)
       THEN [status |-> "BadRequestException", message |-> "INVALID_EMAIL_FORMAT",
             teacher |-> NoTeacher]
     ELSE [status |-> "ok", message |-> "",
           teacher |-> FindOneTeacher(normalizedEmail, ts, ss, es)]

\* createTeacher as it would be if it stored the e-mail as it was given
createTeacher_Unnormalised(email, ts, ntid) ==
  LET normalizedEmail == NormalizeEmail(email)
  IN IF ~IsValidEmail(normalizedEmail)
       THEN [status |-> "BadRequestException", message |-> "INVALID_EMAIL_FORMAT",
             teachers |-> ts, nextTeacherId |-> ntid]
     ELSE IF \E t \in ts : t.email = email
       THEN [status |-> "QueryFailedError", message |-> "DUPLICATE_ENTRY",
             teachers |-> ts, nextTeacherId |-> ntid]
     ELSE [status |-> "ok", message |-> "",
           teachers |-> ts \cup {[id |-> ntid, email |-> email]},
           nextTeacherId |-> ntid + 1]

\* createTeacher: INSERT INTO teachers; the unique index on teachers.email
\* rejects an e-mail that is already stored
createTeacher(email, ts, ntid) ==
  LET normalizedEmail == NormalizeEmail(email)
  IN IF ~IsValidEmail(normalizedEmail)
       THEN [status |-> "BadRequestException", message |-> "INVALID_EMAIL_FORMAT",
             teachers |-> ts, nextTeacherId |-> ntid]
     ELSE IF \E t \in ts : t.email = normalizedEmail
       THEN [status |-> "QueryFailedError", message |-> "DUPLICATE_ENTRY",
             teachers |-> ts, nextTeacherId |-> ntid]
     ELSE [status |-> "ok", message |-> "",
           teachers |-> ts \cup {[id |-> ntid, email |-> normalizedEmail]},
           nextTeacherId |-> ntid + 1]

\* registerLoad with the list validated before the teacher is looked up
registerLoad_ListFirst(teacherEmail, studentEmails, ts, ss, es) ==
  LET found == findTeacherByEmail(NormalizeEmail(teacherEmail), ts, ss, es)
      validStudentEmails == FilterValidEmails(studentEmails)
      stop(status, message) ==
        [status |-> status, message |-> message, teacher |-> NoTeacher,
         validStudentEmails |-> <<>>]
  IN IF Len(studentEmails) = 0 THEN stop("BadRequestException", "EMPTY_STUDENT_LIST")
     ELSE IF Len(validStudentEmails) = 0
       THEN stop("BadRequestException", "INVALID_EMAIL_FORMAT")
     ELSE IF found.status # "ok" THEN stop(found.status, found.message)
     ELSE IF found.teacher = NoTeacher THEN stop("NotFoundException", "TEACHER_NOT_FOUND")
     ELSE [status |-> "ok", message |-> "", teacher |-> found.teacher,
           validStudentEmails |-> validStudentEmails]

\* registerStudentsToTeacher up to its first store round trip: the checks of
\* the arguments and the load of the teacher with its students
registerLoad(teacherEmail, studentEmails, ts, ss, es) ==
  LET found == findTeacherByEmail(NormalizeEmail(teacherEmail), ts, ss, es)
      validStudentEmails == FilterValidEmails(studentEmails)
      stop(status, message) ==
        [status |-> status, message |-> message, teacher |-> NoTeacher,
         validStudentEmails |-> <<>>]
  IN IF Len(studentEmails) = 0 THEN stop("BadRequestException", "EMPTY_STUDENT_LIST")
     ELSE IF found.status # "ok" THEN stop(found.status, found.message)
     ELSE IF found.teacher = NoTeacher THEN stop("NotFoundException", "TEACHER_NOT_FOUND")
     ELSE IF Len(validStudentEmails) = 0
       THEN stop("BadRequestException", "INVALID_EMAIL_FORMAT")
     ELSE [status |-> "ok", message |-> "", teacher |-> found.teacher,
           validStudentEmails |-> validStudentEmails]

\* newStudentsOf with the membership test inverted
newStudentsOf_Members(teacher, successful) ==
  LET existingStudentIds == {teacher.students[i].id : i \in 1..Len(teacher.students)}
  IN SelectSeq(successful, LAMBDA s : s.id \in existingStudentIds)

\* the students of bulkCreateStudents' result that the loaded teacher lacks
newStudentsOf(teacher, successful) ==
  LET existingStudentIds == {teacher.students[i].id : i \in 1..Len(teacher.students)}
  IN SelectSeq(successful, LAMBDA s : s.id \notin existingStudentIds)

\* SaveTeacherStudents as it would be with cascade: ['update'] on the
\* relation: the student objects of the saved collection are written back
SaveTeacherStudents_Cascade(tid, entityStudents, dbIds, es, ss) ==
  LET entityIds == {entityStudents[i].id : i \in 1..Len(entityStudents)}
      inserted == entityIds \ dbIds
      removed == dbIds \ entityIds
      written == {s \in ss : s.id \notin entityIds} \cup Range(entityStudents)
  IN IF \E i \in inserted : <<tid, i>> \in es
       THEN [ok |-> FALSE, edges |-> es, students |-> ss]
     ELSE [ok |-> TRUE,
           edges |-> (es \ {<<tid, r>> : r \in removed}) \cup {<<tid, i>> : i \in inserted},
           students |-> written]

\* teacherRepository.save(updatedTeacher), second half: the junction rows are
\* synchronised with the saved collection, relative to the rows dbIds that
\* save read for this teacher: rows for students the collection adds are
\* inserted (the primary key of teacher_students rejects a row that is
\* already there, and the transaction rolls back), rows for students the
\* collection lacks are deleted. The relation 'students' of Teacher declares
\* no cascade, so no column of a student row is written.
SaveTeacherStudents(tid, entityStudents, dbIds, es, ss) ==
  LET entityIds == {entityStudents[i].id : i \in 1..Len(entityStudents)}
      inserted == entityIds \ dbIds
      removed == dbIds \ entityIds
  IN IF \E i \in inserted : <<tid, i>> \in es
       THEN [ok |-> FALSE, edges |-> es, students |-> ss]
     ELSE [ok |-> TRUE,
           edges |-> (es \ {<<tid, r>> : r \in removed}) \cup {<<tid, i>> : i \in inserted},
           students |-> ss]

\* teacherRepository.save, first half: the student ids the junction table
\* holds for the teacher
LoadRelationIds(tid, es) == {e[2] : e \in {x \in es : x[1] = tid}}

\* registerStudentsToTeacher with the students resolved before the teacher is
\* looked up: a failure of the teacher look-up leaves the created rows behind
registerStudentsToTeacher_CreateFirst(teacherEmail, studentEmails, fault, ts, ss, es, nsid) ==
  LET studentsResult == bulkCreateStudents(FilterValidEmails(studentEmails), ss, nsid, fault)
      loaded == registerLoad(teacherEmail, studentEmails, ts, studentsResult.students, es)
      newStudents == newStudentsOf(loaded.teacher, studentsResult.successful)
      saved == SaveTeacherStudents(loaded.teacher.id,
                                   loaded.teacher.students \o newStudents,
                                   LoadRelationIds(loaded.teacher.id, es), es,
                                   studentsResult.students)
      done(status, message, ss2, nsid2, es2) ==
        [status |-> status, message |-> message, students |-> ss2,
         nextStudentId |-> nsid2, edges |-> es2]
  IN IF loaded.status # "ok"
       THEN done(loaded.status, loaded.message, studentsResult.students,
                 studentsResult.nextStudentId, es)
     ELSE IF Len(studentsResult.successful) = 0 \/ Len(newStudents) = 0
       THEN done("ok", "", studentsResult.students, studentsResult.nextStudentId, es)
     ELSE IF ~saved.ok
       THEN done("QueryFailedError", "DUPLICATE_ENTRY", studentsResult.students,
                 studentsResult.nextStudentId, es)
     ELSE done("ok", "", saved.students, studentsResult.nextStudentId, saved.edges)

\* registerStudentsToTeacher as one uninterrupted call
registerStudentsToTeacher(teacherEmail, studentEmails, fault, ts, ss, es, nsid) ==
  LET loaded == registerLoad(teacherEmail, studentEmails, ts, ss, es)
      studentsResult == bulkCreateStudents(loaded.validStudentEmails, ss, nsid, fault)
      newStudents == newStudentsOf(loaded.teacher, studentsResult.successful)
      saved == SaveTeacherStudents(loaded.teacher.id,
                                   loaded.teacher.students \o newStudents,
                                   LoadRelationIds(loaded.teacher.id, es), es,
                                   studentsResult.students)
      done(status, message, ss2, nsid2, es2) ==
        [status |-> status, message |-> message, students |-> ss2,
         nextStudentId |-> nsid2, edges |-> es2]
  IN IF loaded.status # "ok" THEN done(loaded.status, loaded.message, ss, nsid, es)
     ELSE IF Len(studentsResult.successful) = 0 \/ Len(newStudents) = 0
       THEN done("ok", "", studentsResult.students, studentsResult.nextStudentId, es)
     ELSE IF ~saved.ok
       THEN done("QueryFailedError", "DUPLICATE_ENTRY", studentsResult.students,
                 studentsResult.nextStudentId, es)
     ELSE done("ok", "", saved.students, studentsResult.nextStudentId, saved.edges)

\* ActiveEmails without the filter on the suspended flag
ActiveEmails_All(teacher) ==
  [i \in 1..Len(teacher.students) |-> teacher.students[i].email]

\* the e-mails of the students of a loaded teacher that are not suspended
ActiveEmails(teacher) ==
  LET active == SelectSeq(teacher.students, LAMBDA s : ~s.suspended)
  IN [i \in 1..Len(active) |-> active[i].email]

\* getTeacherStudents without the final sort: the e-mails in the order of the
\* loaded relation
getTeacherStudents_Unsorted(teacherEmail, ts, ss, es) ==
  LET found == findTeacherByEmail(teacherEmail, ts, ss, es)
  IN IF found.status # "ok"
       THEN [status |-> found.status, message |-> found.message, value |-> <<>>]
     ELSE IF found.teacher = NoTeacher
       THEN [status |-> "NotFoundException", message |-> "TEACHER_NOT_FOUND", value |-> <<>>]
     ELSE [status |-> "ok", message |-> "", value |-> ActiveEmails(found.teacher)]

getTeacherStudents(teacherEmail, ts, ss, es) ==
  LET found == findTeacherByEmail(teacherEmail, ts, ss, es)
  IN IF found.status # "ok"
       THEN [status |-> found.status, message |-> found.message, value |-> <<>>]
     ELSE IF found.teacher = NoTeacher
       THEN [status |-> "NotFoundException", message |-> "TEACHER_NOT_FOUND", value |-> <<>>]
     ELSE [status |-> "ok", message |-> "",
           value |-> SortStrings(ActiveEmails(found.teacher))]

\* teacherRepository.find({ where: { email: In(emails) }, relations: ['students'] })
FindTeachersIn(emails, ts, ss, es) ==
  LET rows == RowsById({t \in ts : t.email \in Range(emails)})
  IN [i \in 1..Len(rows) |->
        [id |-> rows[i].id, email |-> rows[i].email,
         students |-> RelationStudents(rows[i].id, ss, es)]]

\* the comparison weakened to "some teacher was found"
AllTeachersFound_Some(found, normalizedTeacherEmails) ==
  Len(found) > 0

\* teachers.length !== normalizedTeacherEmails.length is false
AllTeachersFound(found, normalizedTeacherEmails) ==
  Len(found) = Len(normalizedTeacherEmails)

\* the active e-mails of the first teacher, not intersected with the others
CommonStudentEmails_First(found) ==
  RemoveDuplicateEmails(ActiveEmails(found[1]))

\* the active e-mails of the first teacher that every other teacher has too
CommonStudentEmails(found) ==
  LET studentEmailSets == [i \in 1..Len(found) |-> Range(ActiveEmails(found[i]))]
  IN SelectSeq(RemoveDuplicateEmails(ActiveEmails(found[1])),
               LAMBDA e : \A i \in 2..Len(found) : e \in studentEmailSets[i])

getCommonStudents(teacherEmails, ts, ss, es) ==
  LET validTeacherEmails == FilterValidEmails(teacherEmails)
      normalizedTeacherEmails == NormalizeEmails(validTeacherEmails)
      found == FindTeachersIn(normalizedTeacherEmails, ts, ss, es)
  IN IF Len(teacherEmails) = 0
       THEN [status |-> "BadRequestException", message |-> "EMPTY_TEACHER_LIST", value |-> <<>>]
     ELSE IF Len(validTeacherEmails) = 0
       THEN [status |-> "BadRequestException", message |-> "INVALID_EMAIL_FORMAT", value |-> <<>>]
     ELSE IF ~AllTeachersFound(found, normalizedTeacherEmails)
       THEN [status |-> "ok", message |-> "", value |-> <<>>]
     ELSE IF Len(found) = 1
       THEN [status |-> "ok", message |-> "", value |-> SortStrings(ActiveEmails(found[1]))]
     ELSE [status |-> "ok", message |-> "", value |-> SortStrings(CommonStudentEmails(found))]

\* getNotificationRecipients as the earlier implementation has it: mentioned
\* e-mails that have no student row are inserted and become recipients
getNotificationRecipients_Creating(teacherEmail, notification, ts, ss, es, nsid) ==
  LET normalizedTeacherEmail == NormalizeEmail(teacherEmail)
      lookup == getTeacherStudents(normalizedTeacherEmail, ts, ss, es)
      registeredStudents == IF lookup.status = "ok" THEN lookup.value ELSE <<>>
      mentionedEmails == ExtractMentionedEmails(notification)
      created == bulkCreateStudents(mentionedEmails, ss, nsid, "none")
      mentionedActiveStudents ==
        IF Len(mentionedEmails) > 0
        THEN getStudentsByEmails(mentionedEmails, FALSE, created.students)
        ELSE <<>>
      recipients ==
        SortStrings(RemoveDuplicateEmails(registeredStudents \o mentionedActiveStudents))
  IN [status |-> "ok", message |-> "", value |-> recipients,
      students |-> created.students, nextStudentId |-> created.nextStudentId]

\* getNotificationRecipients: the recipients, and the table students and its
\* id counter as the call leaves them (it issues look-ups only)
getNotificationRecipients(teacherEmail, notification, ts, ss, es, nsid) ==
  LET normalizedTeacherEmail == NormalizeEmail(teacherEmail)
      lookup == getTeacherStudents(normalizedTeacherEmail, ts, ss, es)
      registeredStudents == IF lookup.status = "ok" THEN lookup.value ELSE <<>>
      mentionedEmails == ExtractMentionedEmails(notification)
      mentionedActiveStudents ==
        IF Len(mentionedEmails) > 0
        THEN getStudentsByEmails(mentionedEmails, FALSE, ss)
        ELSE <<>>
      recipients ==
        SortStrings(RemoveDuplicateEmails(registeredStudents \o mentionedActiveStudents))
  IN [status |-> "ok", message |-> "", value |-> recipients,
      students |-> ss, nextStudentId |-> nsid]

(***************************************************************************)
(* Inputs of the calls.                                                    *)
(***************************************************************************)
StudentA == <<"a", "@", "d", ".", "c">>
StudentB == <<"b", "@", "d", ".", "c">>
TeacherT == <<"t", "@", "d", ".", "c">>
TeacherU == <<"u", "@", "d", ".", "c">>

StudentEmails == {StudentA, StudentB}
TeacherEmails == {TeacherT, TeacherU}

\* student e-mails as callers write them: canonical, upper case, padded with
\* white space
RawStudentEmails ==
  {StudentA, StudentB, <<"A", "@", "d", ".", "c">>, <<" ">> \o StudentB}

\* teacher e-mails as callers write them: canonical, upper case, malformed
RawTeacherEmails ==
  {TeacherT, TeacherU, <<"T", "@", "d", ".", "c">>, <<"t", "@", "d", "c">>}

\* teacher e-mails in the lists of getCommonStudents: also padded
RawTeacherEntries == RawTeacherEmails \cup {<<" ">> \o TeacherU}

\* notification texts
Notifications ==
  {<<>>,
   <<"@">> \o StudentA,
   <<"@", "A", "@", "d", ".", "c", " ", "@">> \o StudentB,
   <<"@">> \o StudentA \o <<"!">>,
   <<"@">> \o StudentB \o <<",", "@">> \o StudentA,
   <<"@", "a", "@", "d", "c", " ", "@", " ">>}

ListsOver(S) == UNION {[1..n -> S] : n \in 0..MaxListLen}

StudentLists == ListsOver(StudentEmails)
RawStudentLists == ListsOver(RawStudentEmails)
RawTeacherLists == ListsOver(RawTeacherEntries)

(***************************************************************************)
(* Calls that run without interleaving.  A behaviour is a history of       *)
(* earlier calls, written with canonical arguments and logged by name      *)
(* only, followed by the call under observation, whose arguments range     *)
(* over every way of writing them and which `last` logs in full.           *)
(***************************************************************************)
Returned(op, teacher, emails, text, fault, status, message, value) ==
  [op |-> op, teacher |-> teacher, emails |-> emails, text |-> text,
   fault |-> fault, status |-> status, message |-> message, value |-> value,
   attempt |-> 1]

NothingYet == Returned("none", <<>>, <<>>, <<>>, "none", "ok", "", <<>>)
EarlierCall == Returned("earlier", <<>>, <<>>, <<>>, "none", "ok", "", <<>>)

\* the call under observation has returned
Observed == last.op \notin {"none", "earlier"}

\* a caller that has not called yet: its position in registerStudentsToTeacher
\* and the locals of the call
NoCall == [pc |-> "idle", teacherEmail |-> <<>>, studentEmails |-> <<>>,
           fault |-> "none", teacher |-> NoTeacher, validStudentEmails |-> <<>>,
           existing |-> <<>>, entityStudents |-> <<>>, dbIds |-> {},
           status |-> ""]

Callers == {"c1", "c2"}

Init ==
  /\ students = {}
  /\ teachers = {}
  /\ edges = {}
  /\ nextStudentId = 1
  /\ nextTeacherId = 1
  /\ last = NothingYet
  /\ calls = [c \in Callers |-> NoCall]

EarlierCreateTeacher ==
  /\ ~Observed
  /\ \E email \in TeacherEmails :
       LET r == createTeacher(email, teachers, nextTeacherId)
       IN /\ teachers' = r.teachers
          /\ nextTeacherId' = r.nextTeacherId
  /\ last' = EarlierCall
  /\ UNCHANGED <<students, edges, nextStudentId, calls>>

EarlierRegisterStudents ==
  /\ ~Observed
  /\ \E teacherEmail \in TeacherEmails, studentEmails \in StudentLists :
       LET r == registerStudentsToTeacher(teacherEmail, studentEmails, "none",
                                          teachers, students, edges, nextStudentId)
       IN /\ students' = r.students
          /\ nextStudentId' = r.nextStudentId
          /\ edges' = r.edges
  /\ last' = EarlierCall
  /\ UNCHANGED <<teachers, nextTeacherId, calls>>

EarlierSuspendStudent ==
  /\ ~Observed
  /\ \E email \in StudentEmails : students' = suspendStudent(email, students).students
  /\ last' = EarlierCall
  /\ UNCHANGED <<teachers, edges, nextStudentId, nextTeacherId, calls>>

\* one registerStudentsToTeacher call, logged
RegisterCall(teacherEmail, studentEmails, fault, attempt) ==
  LET r == registerStudentsToTeacher(teacherEmail, studentEmails, fault,
                                     teachers, students, edges, nextStudentId)
  IN /\ students' = r.students
     /\ nextStudentId' = r.nextStudentId
     /\ edges' = r.edges
     /\ last' = [Returned("registerStudents", teacherEmail, studentEmails, <<>>,
                          fault, r.status, r.message, <<>>) EXCEPT !.attempt = attempt]
     /\ UNCHANGED <<teachers, nextTeacherId, calls>>

RegisterStudents ==
  /\ ~Observed
  /\ \E teacherEmail \in RawTeacherEmails, studentEmails \in RawStudentLists,
        fault \in StoreFaults :
       RegisterCall(teacherEmail, studentEmails, fault, 1)

\* the caller repeats the registration that has just returned; the store
\* does not fail this time
RegisterAgain ==
  /\ last.op = "registerStudents"
  /\ last.attempt = 1
  /\ RegisterCall(last.teacher, last.emails, "none", 2)

GetTeacherStudents ==
  /\ ~Observed
  /\ \E teacherEmail \in RawTeacherEmails :
       LET r == getTeacherStudents(teacherEmail, teachers, students, edges)
       IN last' = Returned("getTeacherStudents", teacherEmail, <<>>, <<>>, "none",
                           r.status, r.message, r.value)
  /\ UNCHANGED <<store, calls>>

GetCommonStudents ==
  /\ ~Observed
  /\ \E teacherEmails \in RawTeacherLists :
       LET r == getCommonStudents(teacherEmails, teachers, students, edges)
       IN last' = Returned("getCommonStudents", <<>>, teacherEmails, <<>>, "none",
                           r.status, r.message, r.value)
  /\ UNCHANGED <<store, calls>>

GetNotificationRecipients ==
  /\ ~Observed
  /\ \E teacherEmail \in RawTeacherEmails, notification \in Notifications :
       LET r == getNotificationRecipients(teacherEmail, notification,
                                          teachers, students, edges, nextStudentId)
       IN /\ last' = Returned("getNotificationRecipients", teacherEmail, <<>>,
                              notification, "none", r.status, r.message, r.value)
          /\ students' = r.students
          /\ nextStudentId' = r.nextStudentId
  /\ UNCHANGED <<teachers, edges, nextTeacherId, calls>>

\* registration under observation
Next ==
  \/ EarlierCreateTeacher
  \/ EarlierRegisterStudents
  \/ EarlierSuspendStudent
  \/ RegisterStudents
  \/ RegisterAgain

Spec == Init /\ [][Next]_vars

\* the queries under observation
NextRead ==
  \/ EarlierCreateTeacher
  \/ EarlierRegisterStudents
  \/ EarlierSuspendStudent
  \/ GetTeacherStudents
  \/ GetCommonStudents
  \/ GetNotificationRecipients

SpecRead == Init /\ [][NextRead]_vars

(***************************************************************************)
(* Calls that overlap.  Every await of registerStudentsToTeacher is a point *)
(* where another caller's step can run: after the teacher is loaded, after  *)
(* bulkCreateStudents has looked the students up, after it has inserted the *)
(* missing ones, and inside teacherRepository.save between its read of the  *)
(* junction rows and its write.  Each caller makes one call.                *)
(***************************************************************************)
\* the lists of the registrations that overlap
ConcStudentLists == {<<StudentA>>, <<StudentB>>}

\* the argument checks and findTeacherByEmail
RegisterLoadStep(c) ==
  /\ calls[c].pc = "idle"
  /\ \E teacherEmail \in TeacherEmails, studentEmails \in ConcStudentLists :
       LET loaded == registerLoad(teacherEmail, studentEmails, teachers, students, edges)
           called == [NoCall EXCEPT !.teacherEmail = teacherEmail,
                                    !.studentEmails = studentEmails]
       IN calls' = [calls EXCEPT ![c] =
            IF loaded.status = "ok"
            THEN [called EXCEPT !.pc = "find",
                                !.teacher = loaded.teacher,
                                !.validStudentEmails = loaded.validStudentEmails]
            ELSE [called EXCEPT !.pc = "done", !.status = loaded.status]]
  /\ UNCHANGED <<store, last>>

\* bulkCreateStudents: findStudentsByEmails
RegisterFindStep(c) ==
  /\ calls[c].pc = "find"
  /\ LET call == calls[c]
     IN calls' = [calls EXCEPT ![c] =
          [call EXCEPT !.pc = "create",
                       !.existing = bulkCreateFind(call.validStudentEmails, students,
                                                   call.fault)]]
  /\ UNCHANGED <<store, last>>

\* bulkCreateStudents: studentRepository.save, then the early returns and the
\* construction of updatedTeacher
RegisterCreateStep(c) ==
  /\ calls[c].pc = "create"
  /\ LET call == calls[c]
         r == bulkCreateAfterFind(call.validStudentEmails, call.existing, students,
                                  nextStudentId, call.fault)
         newStudents == newStudentsOf(call.teacher, r.successful)
     IN /\ students' = r.students
        /\ nextStudentId' = r.nextStudentId
        /\ calls' = [calls EXCEPT ![c] =
             IF Len(r.successful) = 0 \/ Len(newStudents) = 0
             THEN [call EXCEPT !.pc = "done", !.status = "ok"]
             ELSE [call EXCEPT !.pc = "save",
                               !.entityStudents = call.teacher.students \o newStudents]]
  /\ UNCHANGED <<teachers, edges, nextTeacherId, last>>

\* teacherRepository.save: the read of the teacher's junction rows
RegisterSaveLoadStep(c) ==
  /\ calls[c].pc = "save"
  /\ LET call == calls[c]
     IN calls' = [calls EXCEPT ![c] =
          [call EXCEPT !.pc = "write",
                       !.dbIds = LoadRelationIds(call.teacher.id, edges)]]
  /\ UNCHANGED <<store, last>>

\* teacherRepository.save: the write, and the return
RegisterSaveWriteStep(c) ==
  /\ calls[c].pc = "write"
  /\ LET call == calls[c]
         saved == SaveTeacherStudents(call.teacher.id, call.entityStudents, call.dbIds,
                                      edges, students)
     IN /\ edges' = saved.edges
        /\ students' = saved.students
        /\ calls' = [calls EXCEPT ![c] =
             [call EXCEPT !.pc = "done",
                          !.status = IF saved.ok THEN "ok" ELSE "QueryFailedError"]]
  /\ UNCHANGED <<teachers, nextStudentId, nextTeacherId, last>>

NextConc ==
  \/ EarlierCreateTeacher
  \/ EarlierSuspendStudent
  \/ \E c \in Callers : RegisterLoadStep(c)
  \/ \E c \in Callers : RegisterFindStep(c)
  \/ \E c \in Callers : RegisterCreateStep(c)
  \/ \E c \in Callers : RegisterSaveLoadStep(c)
  \/ \E c \in Callers : RegisterSaveWriteStep(c)

SpecConc == Init /\ [][NextConc]_vars

(***************************************************************************)
(* The student operations under observation.                               *)
(***************************************************************************)
\* one suspendStudent call, logged with its argument as a one-entry list
SuspendCall(email, attempt) ==
  LET r == suspendStudent(email, students)
  IN /\ students' = r.students
     /\ last' = [Returned("suspendStudent", <<>>, <<email>>, <<>>, "none",
                          r.status, r.message, <<>>) EXCEPT !.attempt = attempt]
     /\ UNCHANGED <<teachers, edges, nextStudentId, nextTeacherId, calls>>

SuspendStudent ==
  /\ ~Observed
  /\ \E email \in RawStudentEmails : SuspendCall(email, 1)

\* the caller repeats the suspension that has just returned
SuspendAgain ==
  /\ last.op = "suspendStudent"
  /\ last.attempt = 1
  /\ SuspendCall(last.emails[1], 2)

\* one bulkCreateStudents call, logged with its IBatchOperationResult
BulkCreateStudents ==
  /\ ~Observed
  /\ \E emails \in RawStudentLists, fault \in StoreFaults :
       LET r == bulkCreateStudents(emails, students, nextStudentId, fault)
       IN /\ students' = r.students
          /\ nextStudentId' = r.nextStudentId
          /\ last' = Returned("bulkCreateStudents", <<>>, emails, <<>>, fault, "ok", "",
                              [successful |-> r.successful, failed |-> r.failed,
                               totalProcessed |-> r.totalProcessed])
  /\ UNCHANGED <<teachers, edges, nextTeacherId, calls>>

NextStudent ==
  \/ EarlierCreateTeacher
  \/ EarlierRegisterStudents
  \/ EarlierSuspendStudent
  \/ SuspendStudent
  \/ SuspendAgain
  \/ BulkCreateStudents

SpecStudent == Init /\ [][NextStudent]_vars

(***************************************************************************)
(* The operations that insert rows, under observation with raw e-mails.    *)
(***************************************************************************)
\* one createTeacher call, logged
CreateTeacher ==
  /\ ~Observed
  /\ \E email \in RawTeacherEntries :
       LET r == createTeacher(email, teachers, nextTeacherId)
       IN /\ teachers' = r.teachers
          /\ nextTeacherId' = r.nextTeacherId
          /\ last' = Returned("createTeacher", email, <<>>, <<>>, "none",
                              r.status, r.message, <<>>)
  /\ UNCHANGED <<students, edges, nextStudentId, calls>>

NextCreate ==
  \/ EarlierCreateTeacher
  \/ EarlierRegisterStudents
  \/ EarlierSuspendStudent
  \/ CreateTeacher
  \/ BulkCreateStudents
  \/ RegisterStudents

SpecCreate == Init /\ [][NextCreate]_vars

(***************************************************************************)
(* The listings: getActiveStudents and getAllTeachers.  An optional        *)
(* argument is <<>> when the caller omits it and <<n>> when the caller     *)
(* supplies n; the same holds for the LIMIT and OFFSET of the query.       *)
(***************************************************************************)
MaxWindow == 2

WindowArguments == {<<>>} \cup {<<n>> : n \in 0..MaxWindow}

\* `if (limit)`, `if (offset)`: undefined and 0 are falsy
Truthy(argument) == Len(argument) = 1 /\ argument[1] # 0

\* the LIMIT and OFFSET the query builder has been given before getMany()
QueryWindow(limit, offset) ==
  [limit |-> IF Truthy(limit) THEN limit ELSE <<>>,
   offset |-> IF Truthy(offset) THEN offset ELSE <<>>]

\* the rows a scan returns under the LIMIT and OFFSET of the query
Window(rows, query) ==
  LET skip == IF query.offset = <<>> THEN 0 ELSE query.offset[1]
      upTo == IF query.limit = <<>> THEN Len(rows)
              ELSE IF skip + query.limit[1] < Len(rows) THEN skip + query.limit[1]
              ELSE Len(rows)
  IN SubSeq(rows, skip + 1, upTo)

\* ORDER BY email ASC over rows whose e-mails are unique
RowsByEmail(rows) ==
  LET byId == RowsById(rows)
      emails == SortStrings([i \in 1..Len(byId) |-> byId[i].email])
  IN [i \in 1..Len(emails) |-> CHOOSE r \in rows : r.email = emails[i]]

\* getActiveStudents(limit, offset): the query issued and the rows returned
getActiveStudents(limit, offset, ss) ==
  LET query == QueryWindow(limit, offset)
  IN [query |-> query,
      rows |-> Window(RowsByEmail({s \in ss : ~s.suspended}), query)]

\* the teacher e-mails of the rows of teacher LEFT JOIN students, ORDER BY
\* teacher.email: one row per student of the teacher, one row for a teacher
\* without students
RECURSIVE JoinedTeacherEmails(_, _)
JoinedTeacherEmails(sorted, es) ==
  IF sorted = <<>> THEN <<>>
  ELSE LET t == Head(sorted)
           n == Cardinality({e \in es : e[1] = t.id})
       IN [i \in 1..(IF n = 0 THEN 1 ELSE n) |-> t.email]
            \o JoinedTeacherEmails(Tail(sorted), es)

\* getAllTeachers(limit, offset): the query issued and the e-mails of the
\* teachers returned. limit() and offset() act on the joined rows, which
\* getMany() groups into teachers; which students a teacher cut by the
\* window is loaded with depends on the row order and is left out.
getAllTeachers(limit, offset, ts, es) ==
  LET query == QueryWindow(limit, offset)
  IN [query |-> query,
      rows |-> RemoveDuplicateEmails(
                 Window(JoinedTeacherEmails(RowsByEmail(ts), es), query))]

\* the listings are logged with their arguments, the query and the e-mails
\* of the rows returned
Listed(op, limit, offset, listing, emails) ==
  Returned(op, <<>>, <<>>, <<>>, "none", "ok", "",
           [limit |-> limit, offset |-> offset, query |-> listing.query,
            rows |-> listing.rows, emails |-> emails])

GetActiveStudents ==
  /\ ~Observed
  /\ \E limit \in WindowArguments, offset \in WindowArguments :
       LET r == getActiveStudents(limit, offset, students)
       IN last' = Listed("getActiveStudents", limit, offset, r,
                         [i \in 1..Len(r.rows) |-> r.rows[i].email])
  /\ UNCHANGED <<store, calls>>

GetAllTeachers ==
  /\ ~Observed
  /\ \E limit \in WindowArguments, offset \in WindowArguments :
       LET r == getAllTeachers(limit, offset, teachers, edges)
       IN last' = Listed("getAllTeachers", limit, offset, r, r.rows)
  /\ UNCHANGED <<store, calls>>

NextList ==
  \/ EarlierCreateTeacher
  \/ EarlierRegisterStudents
  \/ EarlierSuspendStudent
  \/ GetActiveStudents
  \/ GetAllTeachers

SpecList == Init /\ [][NextList]_vars

(***************************************************************************)
(* EmailUtils applied on its own: the store stays empty, `last` holds the  *)
(* argument and the value returned.                                        *)
(***************************************************************************)
\* the e-mail lists handed to filterValidEmails and normalizeEmails
RawLists == RawStudentLists \cup RawTeacherLists

ExtractMentions ==
  /\ \E notification \in Notifications :
       last' = Returned("extractMentionedEmails", <<>>, <<>>, notification, "none",
                        "ok", "", ExtractMentionedEmails(notification))
  /\ UNCHANGED <<store, calls>>

FilterValid ==
  /\ \E emails \in RawLists :
       last' = Returned("filterValidEmails", <<>>, emails, <<>>, "none",
                        "ok", "", FilterValidEmails(emails))
  /\ UNCHANGED <<store, calls>>

NormalizeAll ==
  /\ \E emails \in RawLists :
       last' = Returned("normalizeEmails", <<>>, emails, <<>>, "none",
                        "ok", "", NormalizeEmails(emails))
  /\ UNCHANGED <<store, calls>>

NextUtil ==
  \/ ExtractMentions
  \/ FilterValid
  \/ NormalizeAll

SpecUtil == Init /\ [][NextUtil]_vars

(***************************************************************************)
(* What the claims speak of.                                               *)
(***************************************************************************)
\* the stored teacher a caller's e-mail denotes
HasTeacher(email) == \E t \in teachers : t.email = NormalizeEmail(email)
TeacherIdOf(email) == (CHOOSE t \in teachers : t.email = NormalizeEmail(email)).id

\* the students registered to a teacher in a junction table
MemberIds(tid, es) == {e[2] : e \in {x \in es : x[1] = tid}}

\* the canonical e-mails of the entries of a list that are valid as written
NamedBy(emails) == {NormalizeEmail(e) : e \in {x \in Range(emails) : IsValidEmail(x)}}

C2_RegisterAddsNamedStudents ==
  [][(/\ last'.op = "registerStudents"
      /\ last'.status = "ok"
      /\ last'.fault = "none"
      /\ HasTeacher(last'.teacher))
     => LET tid == TeacherIdOf(last'.teacher)
            named == NamedBy(last'.emails)
        IN /\ \A e \in named : \E s \in students' : s.email = e
           /\ MemberIds(tid, edges') =
                MemberIds(tid, edges) \cup {s.id : s \in {x \in students' : x.email \in named}}
           /\ students \subseteq students'
           /\ \A s \in students' \ students :
                /\ ~s.suspended
                /\ s.email \in named
                /\ \A x \in students : x.email # s.email /\ x.id # s.id
           /\ \A t \in teachers :
                t.id # tid => MemberIds(t.id, edges') = MemberIds(t.id, edges)
           /\ teachers' = teachers]_vars

\* a registration written with an upper-case entry has returned: both named
\* students are members, one of them suspended earlier, and the other teacher
\* has a member too
C2_Witness ==
  /\ last.op = "registerStudents"
  /\ last.status = "ok"
  /\ last.fault = "none"
  /\ last.attempt = 1
  /\ last.emails = <<<<"A", "@", "d", ".", "c">>, StudentB>>
  /\ HasTeacher(last.teacher)
  /\ \A e \in {StudentA, StudentB} :
       \E s \in students : s.email = e /\ <<TeacherIdOf(last.teacher), s.id>> \in edges
  /\ \E s \in students : s.suspended
  /\ \E t \in teachers : t.id # TeacherIdOf(last.teacher) /\ MemberIds(t.id, edges) # {}

\* C3: registerStudents is idempotent: repeating a call with the same
\* arguments (the store not failing) returns the same outcome and leaves the
\* students and the memberships as the first call left them; re-registering a
\* member is no error.
C3_RegisterIdempotent ==
  [][(/\ last'.op = "registerStudents"
      /\ last'.attempt = 2
      /\ last.fault = "none"
      /\ last'.fault = "none")
     => (/\ last'.status = last.status
         /\ last'.message = last.message
         /\ students' = students
         /\ edges' = edges
         /\ teachers' = teachers)]_vars

\* a registration that created a student and made it a member has been repeated
C3_Witness ==
  /\ last.op = "registerStudents"
  /\ last.attempt = 2
  /\ last.fault = "none"
  /\ last.status = "ok"
  /\ HasTeacher(last.teacher)
  /\ Cardinality(NamedBy(last.emails)) = 2
  /\ \A e \in NamedBy(last.emails) :
       \E s \in students : s.email = e /\ <<TeacherIdOf(last.teacher), s.id>> \in edges

C23_RegisterCreatesTeacher ==
  [][(/\ last'.op = "registerStudents"
      /\ last'.fault = "none"
      /\ IsValidEmail(NormalizeEmail(last'.teacher))
      /\ ~HasTeacher(last'.teacher)
      /\ NamedBy(last'.emails) # {}
      /\ \A e \in NamedBy(last'.emails) : \A s \in students : s.email = e => ~s.suspended)
     => (/\ last'.status = "ok"
         /\ LET common == getCommonStudents(<<last'.teacher>>, teachers', students', edges')
            IN /\ common.status = "ok"
               /\ NamedBy(last'.emails) \subseteq Range(common.value))]_vars

\* the list registerStudentsToTeacher hands to bulkCreateStudents
bulkCreateArgument(teacherEmail, studentEmails) ==
  registerLoad(teacherEmail, studentEmails, teachers, students, edges).validStudentEmails

\* every entry of a list is written canonically and occurs once
OnePerStudent(emails) ==
  /\ \A i \in 1..Len(emails) : emails[i] = NormalizeEmail(emails[i])
  /\ \A i \in 1..Len(emails) : \A j \in (i + 1)..Len(emails) : emails[i] # emails[j]

\* C24: the list a registerStudents call hands to bulkCreateStudents holds one
\* normalised entry per distinct student: entries that differ in letter case
\* only are collapsed to the lower-case e-mail before the call.
C24_BulkCreateGetsNormalisedList ==
  [][(/\ last'.op = "registerStudents"
      /\ registerLoad(last'.teacher, last'.emails, teachers, students, edges).status = "ok")
     => OnePerStudent(bulkCreateArgument(last'.teacher, last'.emails))]_vars

\* the ids of the stored students a list names
StoredIdsNamed(emails) == {s.id : s \in {x \in students : x.email \in NamedBy(emails)}}

\* C25: when the insert of the new students fails in the store during a
\* registerStudents call on an existing teacher, the call returns without
\* error and no student row is written; the teacher gains exactly the listed
\* students that already had a row, so its membership is unchanged when none
\* of them had one.
C25_CreateFailureRegistersFound ==
  [][(/\ last'.op = "registerStudents"
      /\ last'.fault = "create"
      /\ HasTeacher(last'.teacher)
      /\ \E e \in NamedBy(last'.emails) : \A s \in students : s.email # e)
     => (/\ last'.status = "ok"
         /\ students' = students
         /\ nextStudentId' = nextStudentId
         /\ MemberIds(TeacherIdOf(last'.teacher), edges')
              = MemberIds(TeacherIdOf(last'.teacher), edges)
                  \cup StoredIdsNamed(last'.emails)
         /\ (StoredIdsNamed(last'.emails) = {} => edges' = edges)
         /\ \A e \in edges' \ edges : e[1] = TeacherIdOf(last'.teacher))]_vars

\* the insert failed in a registration that names a student without a row
\* and a student with a row; the latter is the teacher's only member
C25_Witness ==
  /\ last.op = "registerStudents"
  /\ last.attempt = 1
  /\ last.fault = "create"
  /\ last.status = "ok"
  /\ HasTeacher(last.teacher)
  /\ \E e \in NamedBy(last.emails) : \A s \in students : s.email # e
  /\ \E s \in students :
       /\ s.email \in NamedBy(last.emails)
       /\ MemberIds(TeacherIdOf(last.teacher), edges) = {s.id}

\* C26: registering a student who is already suspended to an existing
\* teacher (the look-up of the students not failing) succeeds and adds the
\* membership edge; the student stays suspended and is in none of the results
\* of getTeacherStudents, getCommonStudents and getNotificationRecipients for
\* that teacher, mentioned or not.
C26_SuspendedStudentIsRegistered ==
  [][(/\ last'.op = "registerStudents"
      /\ last'.fault # "find"
      /\ HasTeacher(last'.teacher))
     => \A s \in students :
          (s.suspended /\ s.email \in NamedBy(last'.emails))
          => (/\ last'.status = "ok"
              /\ <<TeacherIdOf(last'.teacher), s.id>> \in edges'
              /\ s \in students'
              /\ s.email \notin Range(getTeacherStudents(last'.teacher, teachers',
                                                        students', edges').value)
              /\ s.email \notin Range(getCommonStudents(<<last'.teacher>>, teachers',
                                                       students', edges').value)
              /\ \A text \in Notifications :
                   s.email \notin Range(getNotificationRecipients(
                                          last'.teacher, text, teachers', students',
                                          edges', nextStudentId').value))]_vars

\* a registration has made a suspended student a member of the teacher
C26_Witness ==
  /\ last.op = "registerStudents"
  /\ last.attempt = 1
  /\ last.status = "ok"
  /\ HasTeacher(last.teacher)
  /\ \E s \in students :
       /\ s.suspended
       /\ s.email \in NamedBy(last.emails)
       /\ <<TeacherIdOf(last.teacher), s.id>> \in edges
       /\ \E t \in students : ~t.suspended /\ <<TeacherIdOf(last.teacher), t.id>> \in edges

\* C19: replacing an e-mail of the input by a variant that differs in letter
\* case or in surrounding white space changes neither the result nor the
\* final state: a registerStudents call ends as the call with every e-mail
\* written canonically ends.
C19_VariantsResolveAlike ==
  [][last'.op = "registerStudents" =>
       LET canonical ==
             registerStudentsToTeacher(
               NormalizeEmail(last'.teacher),
               [i \in 1..Len(last'.emails) |-> NormalizeEmail(last'.emails[i])],
               last'.fault, teachers, students, edges, nextStudentId)
       IN /\ last'.status = canonical.status
          /\ last'.message = canonical.message
          /\ students' = canonical.students
          /\ edges' = canonical.edges]_vars

(***************************************************************************)
(* The queries.                                                            *)
(***************************************************************************)
ReadOps == {"getTeacherStudents", "getCommonStudents", "getNotificationRecipients"}

\* the e-mails of the students that are members of a teacher and not suspended
ActiveMembers(tid) ==
  {s.email : s \in {x \in students : ~x.suspended /\ <<tid, x.id>> \in edges}}

\* a list of strings ascends strictly in code-unit order: sorted, no duplicate
Ascending(value) ==
  \A i \in 1..Len(value) : \A j \in (i + 1)..Len(value) : StrLess(value[i], value[j])

\* C5: no e-mail in the output of getStudents, getCommonStudents or
\* getNotificationRecipients belongs to a student that is suspended when the
\* read starts, whatever calls came before, be the student a member of the
\* teacher or mentioned in the text.
C5_SuspendedNeverListed ==
  last.op \in ReadOps =>
    \A i \in 1..Len(last.value) :
      \A s \in students : s.suspended => s.email # last.value[i]

\* getNotificationRecipients has returned a non-empty list for a teacher one
\* of whose members is suspended and is mentioned in the text
C5_Witness ==
  /\ last.op = "getNotificationRecipients"
  /\ last.text = <<"@">> \o StudentA
  /\ HasTeacher(last.teacher)
  /\ \E s \in students :
       /\ s.email = StudentA
       /\ s.suspended
       /\ <<TeacherIdOf(last.teacher), s.id>> \in edges
  /\ last.value = <<StudentB>>

\* C7: when every teacher named by the valid entries of the list is stored,
\* getCommonStudents returns exactly the e-mails of the students that are
\* non-suspended members of every named teacher, in strictly ascending
\* order (sorted, no duplicate); so the result is a subset of each named
\* teacher's active students, and for a single teacher it is the list
\* getStudents returns for that teacher.
C7_CommonIsIntersection ==
  (/\ last.op = "getCommonStudents"
   /\ NamedBy(last.emails) # {}
   /\ \A e \in NamedBy(last.emails) : HasTeacher(e))
  => (/\ last.status = "ok"
      /\ Range(last.value) =
           {e \in {s.email : s \in students} :
              \A t \in NamedBy(last.emails) : e \in ActiveMembers(TeacherIdOf(t))}
      /\ Ascending(last.value)
      /\ \A t \in NamedBy(last.emails) :
           /\ Range(last.value) \subseteq ActiveMembers(TeacherIdOf(t))
           /\ Cardinality(NamedBy(last.emails)) = 1 =>
                last.value = getTeacherStudents(t, teachers, students, edges).value)

\* getCommonStudents has returned one student for two stored teachers that
\* share a second, suspended student
C7_Witness ==
  /\ last.op = "getCommonStudents"
  /\ Cardinality(NamedBy(last.emails)) = 2
  /\ \A e \in NamedBy(last.emails) : HasTeacher(e)
  /\ Len(last.value) = 1
  /\ \E s \in students :
       /\ s.suspended
       /\ \A e \in NamedBy(last.emails) : <<TeacherIdOf(e), s.id>> \in edges

\* C8: getCommonStudents returns the empty list, and no error, whenever one of
\* the distinct valid teacher e-mails of the list has no teacher row, also
\* when the other named teachers are stored and have students.
C8_MissingTeacherGivesEmpty ==
  (/\ last.op = "getCommonStudents"
   /\ \E e \in NamedBy(last.emails) : ~HasTeacher(e))
  => (last.status = "ok" /\ last.value = <<>>)

\* getCommonStudents has returned for a list naming a stored teacher that has
\* an active student and a teacher that is not stored
C8_Witness ==
  /\ last.op = "getCommonStudents"
  /\ last.emails = <<TeacherT, TeacherU>>
  /\ HasTeacher(TeacherT)
  /\ ~HasTeacher(TeacherU)
  /\ ActiveMembers(TeacherIdOf(TeacherT)) # {}
  /\ last.value = <<>>

\* two lists that differ by the order of their entries, by repeated entries
\* and by the letter case of entries
SameTeachersWritten(l1, l2) ==
  {ToLowerCase(x) : x \in Range(l1)} = {ToLowerCase(x) : x \in Range(l2)}

\* C9: getCommonStudents returns the same outcome for every permutation of
\* its list and for every list obtained by repeating an entry or by writing
\* an entry in another letter case.
C9_CommonIgnoresOrderRepetitionCase ==
  last.op = "getCommonStudents" =>
    \A other \in RawTeacherLists :
      SameTeachersWritten(last.emails, other) =>
        LET r == getCommonStudents(other, teachers, students, edges)
        IN /\ r.status = last.status
           /\ r.message = last.message
           /\ r.value = last.value

\* getCommonStudents has returned a student for a list that writes the same
\* teacher twice, in lower and in upper case
C9_Witness ==
  /\ last.op = "getCommonStudents"
  /\ last.emails = <<TeacherT, <<"T", "@", "d", ".", "c">>>>
  /\ last.status = "ok"
  /\ last.value # <<>>

\* the text addresses an e-mail: '@', the address in any letter case, and then
\* the end of the text, white space or punctuation
MentionedIn(text, email) ==
  \E p \in 1..Len(text) :
    /\ text[p] = "@"
    /\ p + Len(email) <= Len(text)
    /\ ToLowerCase(SubSeq(text, p + 1, p + Len(email))) = email
    /\ \/ p + Len(email) = Len(text)
       \/ text[p + Len(email) + 1] \in {" ", ",", "!"}

\* C10: getNotificationRecipients returns exactly the e-mails of the teacher's
\* non-suspended members together with the e-mails mentioned in the text that
\* belong to a stored, non-suspended student, each once, in ascending order.
C10_RecipientsAreMembersAndMentioned ==
  last.op = "getNotificationRecipients" =>
    /\ last.status = "ok"
    /\ Range(last.value) =
         (IF HasTeacher(last.teacher)
          THEN ActiveMembers(TeacherIdOf(last.teacher)) ELSE {})
         \cup {s.email : s \in {x \in students :
                                  ~x.suspended /\ MentionedIn(last.text, x.email)}}
    /\ Ascending(last.value)

C12_UnknownTeacherMentionsOnly ==
  (/\ last.op = "getNotificationRecipients"
   /\ IsValidEmail(NormalizeEmail(last.teacher))
   /\ ~HasTeacher(last.teacher))
  => (/\ last.status = "ok"
      /\ Range(last.value) =
           {s.email : s \in {x \in students :
                               ~x.suspended /\ MentionedIn(last.text, x.email)}}
      /\ Cardinality(Range(last.value)) = Len(last.value))

(***************************************************************************)
(* The student operations.                                                 *)
(***************************************************************************)
\* C14: suspendStudent of a valid e-mail that has no student row fails with
\* NotFound and changes nothing; for a stored student it succeeds and sets
\* suspended to true, leaving every other row, teacher and membership alone;
\* a second suspension of the same student succeeds too and leaves the state
\* as the first one left it.
C14_SuspendNotFoundOrSet ==
  [][(/\ last'.op = "suspendStudent"
      /\ IsValidEmail(NormalizeEmail(last'.emails[1])))
     => LET e == NormalizeEmail(last'.emails[1])
        IN /\ teachers' = teachers
           /\ edges' = edges
           /\ IF \A s \in students : s.email # e
              THEN /\ last'.status = "NotFoundException"
                   /\ last'.message = "STUDENT_NOT_FOUND"
                   /\ students' = students
              ELSE /\ last'.status = "ok"
                   /\ students' = {IF s.email = e THEN [s EXCEPT !.suspended = TRUE]
                                   ELSE s : s \in students}
                   /\ (last'.attempt = 2 => students' = students)]_vars

\* a student that is a member of a teacher has been suspended twice, the
\* e-mail written in upper case, while another student is not suspended
C14_Witness ==
  /\ last.op = "suspendStudent"
  /\ last.attempt = 2
  /\ last.status = "ok"
  /\ last.emails = <<<<"A", "@", "d", ".", "c">>>>
  /\ \E s \in students : s.email = StudentA /\ s.suspended /\ \E e \in edges : e[2] = s.id
  /\ \E s \in students : ~s.suspended

\* C16: when the store does not fail, bulkCreateStudents returns
\* totalProcessed equal to the length of the list as written, records in
\* failed exactly the entries that fail validation as written, and returns in
\* successful exactly one student per distinct valid normalised e-mail: the
\* row that existed, or else a new row, not suspended; no other row is
\* created and none is changed.
C16_BulkCreateResult ==
  [][(/\ last'.op = "bulkCreateStudents"
      /\ last'.fault = "none")
     => LET raw == last'.emails
            result == last'.value
            named == NamedBy(raw)
        IN /\ result.totalProcessed = Len(raw)
           /\ \A i \in 1..Len(raw) :
                ~IsValidEmail(raw[i]) =>
                  \E j \in 1..Len(result.failed) :
                    /\ result.failed[j].item = raw[i]
                    /\ result.failed[j].error = "INVALID_EMAIL_FORMAT"
           /\ \A j \in 1..Len(result.failed) :
                \E i \in 1..Len(raw) :
                  result.failed[j].item = raw[i] /\ ~IsValidEmail(raw[i])
           /\ Len(result.successful) = Cardinality(named)
           /\ {result.successful[i].email : i \in 1..Len(result.successful)} = named
           /\ \A i \in 1..Len(result.successful) :
                LET row == result.successful[i]
                IN /\ row \in students'
                   /\ IF \E s \in students : s.email = row.email
                      THEN row \in students
                      ELSE ~row.suspended /\ \A s \in students : s.id # row.id
           /\ students \subseteq students'
           /\ \A s \in students' \ students : s.email \in named]_vars

\* bulkCreateStudents has returned for a list naming a stored, suspended
\* student in upper case and a student without a row: the first is returned
\* as stored, the second is created
C16_Witness ==
  /\ last.op = "bulkCreateStudents"
  /\ last.fault = "none"
  /\ last.emails = <<<<"A", "@", "d", ".", "c">>, StudentB>>
  /\ Len(last.value.successful) = 2
  /\ last.value.successful[1].email = StudentA
  /\ last.value.successful[1].suspended
  /\ last.value.successful[2].id = nextStudentId - 1
  /\ last.value.successful[2] \in students

\* C17: when the insert of bulkCreateStudents fails in the store, no student
\* row is persisted, successful holds exactly the rows that existed for the
\* named e-mails, and the DATABASE_ERROR entries of failed are exactly the
\* normalised e-mails that had no row: a student that existed is not
\* reported as failed.
C17_CreateFailureReportsNewOnly ==
  [][(/\ last'.op = "bulkCreateStudents"
      /\ last'.fault = "create"
      /\ \E e \in NamedBy(last'.emails) : \A s \in students : s.email # e)
     => LET result == last'.value
            named == NamedBy(last'.emails)
        IN /\ students' = students
           /\ Range(result.successful) = {s \in students : s.email \in named}
           /\ {result.failed[j].item :
                 j \in {x \in 1..Len(result.failed) :
                          result.failed[x].error = "DATABASE_ERROR"}}
                = {e \in named : \A s \in students : s.email # e}]_vars

(***************************************************************************)
(* EmailUtils.                                                             *)
(***************************************************************************)
Punctuation == {",", "!"}

\* C13: extractMentionedEmails ends each captured address at a punctuation
\* boundary: no captured address holds the ',' or '!' that follows a mention,
\* and every address the text mentions (two mentions separated by
\* punctuation only included) is captured.
C13_MentionsEndAtPunctuation ==
  last.op = "extractMentionedEmails" =>
    /\ \A i \in 1..Len(last.value) :
         \A k \in 1..Len(last.value[i]) : last.value[i][k] \notin Punctuation
    /\ \A e \in StudentEmails :
         MentionedIn(last.text, e) =>
           \E i \in 1..Len(last.value) : ToLowerCase(last.value[i]) = e

\* C20: for every list, the outputs of filterValidEmails and of
\* normalizeEmails are no longer than the list and hold no two entries with
\* the same canonical (trimmed, lower-cased) value.
C20_NoLongerNoCanonicalDuplicates ==
  last.op \in {"filterValidEmails", "normalizeEmails"} =>
    /\ Len(last.value) <= Len(last.emails)
    /\ \A i \in 1..Len(last.value) : \A j \in (i + 1)..Len(last.value) :
         NormalizeEmail(last.value[i]) # NormalizeEmail(last.value[j])

\* C27: getNotificationRecipients swallows the teacher-not-found outcome of
\* the teacher look-up only: when the look-up fails because the teacher
\* e-mail does not normalise to a valid address, the call fails with that
\* BadRequest instead of answering with the mentioned students alone.
C27_OnlyNotFoundSwallowed ==
  (/\ last.op = "getNotificationRecipients"
   /\ getTeacherStudents(NormalizeEmail(last.teacher), teachers, students, edges).status
        = "BadRequestException")
  => last.status = "BadRequestException"

(***************************************************************************)
(* Overlapping calls.                                                      *)
(***************************************************************************)
\* C4: membership edges are never removed: an edge (teacher, student) of one
\* state is an edge of every later state, also when two registerStudents
\* calls on the same teacher overlap between loading the teacher and saving
\* the replaced collection.
C4_EdgesNeverRemoved ==
  [][edges \subseteq edges']_vars

\* C6: suspension is one-way and students are never deleted: every student
\* row of a state is a row of the next state with the same id and e-mail, and
\* a flag that is true stays true, whatever step runs, the save of a teacher
\* holding student objects loaded before the suspension included.
C6_SuspensionOneWay ==
  [][\A s \in students :
       \E n \in students' :
         /\ n.id = s.id
         /\ n.email = s.email
         /\ (s.suspended => n.suspended)]_vars

\* a registration has saved a teacher whose collection held a member loaded
\* as not suspended, after that member was suspended; it still is
C6_Witness ==
  \E c \in Callers :
    /\ calls[c].pc = "done"
    /\ calls[c].status = "ok"
    /\ \E i \in 1..Len(calls[c].entityStudents) :
         /\ ~calls[c].entityStudents[i].suspended
         /\ \E s \in students :
              /\ s.id = calls[c].entityStudents[i].id
              /\ s.suspended
              /\ <<calls[c].teacher.id, s.id>> \in edges

\* C18: in every reachable state, whatever calls ran and however the steps
\* of overlapping registrations interleaved, no two student rows have the
\* same e-mail and no two teacher rows have the same e-mail.
C18_EmailsUnique ==
  /\ \A s1 \in students : \A s2 \in students : s1.email = s2.email => s1 = s2
  /\ \A t1 \in teachers : \A t2 \in teachers : t1.email = t2.email => t1 = t2

\* a registration looked its student up, found no row, and had its insert
\* rejected because an overlapping call had inserted the e-mail meanwhile
C18_Witness ==
  \E c \in Callers :
    /\ calls[c].pc = "done"
    /\ calls[c].status = "ok"
    /\ calls[c].teacher # NoTeacher
    /\ calls[c].existing = <<>>
    /\ calls[c].entityStudents = <<>>
    /\ \E s \in students : s.email \in Range(calls[c].validStudentEmails)

\* the ids of the students a call's save adds to the teacher it loaded
AddedIds(call) ==
  {call.entityStudents[i].id : i \in 1..Len(call.entityStudents)}
    \ {call.teacher.students[i].id : i \in 1..Len(call.teacher.students)}

\* C22: when two overlapping registerStudents calls on the same teacher have
\* both tried to persist the same new membership edge, neither call has
\* returned a failure and the edge exists (once: edges is a set).
C22_DuplicateEdgeIsNoOp ==
  \A c1 \in Callers : \A c2 \in Callers \ {c1} :
    (/\ calls[c1].pc = "done"
     /\ calls[c2].pc = "done"
     /\ calls[c1].teacher # NoTeacher
     /\ calls[c1].teacher.id = calls[c2].teacher.id
     /\ AddedIds(calls[c1]) \cap AddedIds(calls[c2]) # {})
    => (/\ calls[c1].status = "ok"
        /\ calls[c2].status = "ok"
        /\ \A i \in AddedIds(calls[c1]) \cap AddedIds(calls[c2]) :
             <<calls[c1].teacher.id, i>> \in edges)

\* C28: when two overlapping registerStudents calls for two different stored
\* teachers name the same student and neither found a row for it, the
\* student row is created exactly once and, once both calls have returned
\* without error, the student is a member of both teachers.
C28_SharedNewStudentJoinsBoth ==
  \A c1 \in Callers : \A c2 \in Callers \ {c1} :
    (/\ calls[c1].pc = "done" /\ calls[c1].status = "ok"
     /\ calls[c2].pc = "done" /\ calls[c2].status = "ok"
     /\ calls[c1].teacher # NoTeacher
     /\ calls[c2].teacher # NoTeacher
     /\ calls[c1].teacher.id # calls[c2].teacher.id
     /\ calls[c1].validStudentEmails = calls[c2].validStudentEmails
     /\ calls[c1].existing = <<>>
     /\ calls[c2].existing = <<>>)
    => \A e \in Range(calls[c1].validStudentEmails) :
         /\ Cardinality({s \in students : s.email = e}) = 1
         /\ \A s \in students :
              s.email = e => /\ <<calls[c1].teacher.id, s.id>> \in edges
                             /\ <<calls[c2].teacher.id, s.id>> \in edges

(***************************************************************************)
(* The stored e-mails.                                                     *)
(***************************************************************************)
\* an e-mail as the store must hold it: trimmed, lower-case, well-formed
CanonicalEmail(email) ==
  /\ email = Trim(email)
  /\ email = ToLowerCase(email)
  /\ email = NormalizeEmail(email)
  /\ IsValidEmail(email)

\* C29: in every reachable state every stored student e-mail and every
\* stored teacher e-mail is in canonical form (no white space around it,
\* lower-case) and is a valid address, so two rows of a table whose e-mails
\* are equal up to letter case and surrounding white space are the same row.
C29_StoredEmailsCanonical ==
  /\ \A s \in students : CanonicalEmail(s.email)
  /\ \A t \in teachers : CanonicalEmail(t.email)
  /\ \A s1 \in students : \A s2 \in students :
       NormalizeEmail(s1.email) = NormalizeEmail(s2.email) => s1 = s2
  /\ \A t1 \in teachers : \A t2 \in teachers :
       NormalizeEmail(t1.email) = NormalizeEmail(t2.email) => t1 = t2

\* createTeacher has stored a teacher whose e-mail was given in upper case or
\* with a leading space, and a student given in such a way is stored as well
C29_Witness ==
  /\ last.op = "createTeacher"
  /\ last.status = "ok"
  /\ last.teacher # NormalizeEmail(last.teacher)
  /\ \E t \in teachers : t.email = NormalizeEmail(last.teacher)
  /\ students # {}

(***************************************************************************)
(* The listings.                                                           *)
(***************************************************************************)
ListOps == {"getActiveStudents", "getAllTeachers"}

\* C30: getActiveStudents and getAllTeachers pass a supplied positive limit
\* and a supplied offset to the query, a supplied offset of 0 included, and
\* give the query no LIMIT and no OFFSET when they are omitted; the rows come
\* back by ascending e-mail, and getActiveStudents returns no suspended
\* student.
C30_WindowPassedToQuery ==
  last.op \in ListOps =>
    /\ last.value.limit # <<0>> => last.value.query.limit = last.value.limit
    /\ last.value.query.offset = last.value.offset
    /\ Ascending(last.value.emails)
    /\ last.op = "getActiveStudents" =>
         \A i \in 1..Len(last.value.rows) : ~last.value.rows[i].suspended

====
